---- MODULE Spec2Model ----
(***************************************************************************)
(* A model of go-dialogue: the PreamptiveReader (preamptive_reader.go),    *)
(* the Dialogue session engine (dialogue.go) and the command tree          *)
(* (command.go).                                                           *)
(*                                                                         *)
(* Bytes are their ASCII codes.  A slice is a window [id, lo, hi] into an  *)
(* allocated array mem[id], so that two slices of one array alias, as in   *)
(* Go.  Errors are strings, "nil" being the nil error.                     *)
(***************************************************************************)
EXTENDS Integers, Sequences, FiniteSets, TLC

(***************************************************************************)
(* Bounds of the model.                                                    *)
(***************************************************************************)
\* Read calls issued by the direct users of the reader in SpecPR.
MaxReads == 3
\* Largest buffer a direct user of the reader passes to Read.
MaxBufLen == 2

(***************************************************************************)
(* Bytes.                                                                  *)
(***************************************************************************)
NUL == 0
NL == 10
CR == 13
SP == 32

Min(a, b) == IF a < b THEN a ELSE b

IsPrefix(s, t) == Len(s) <= Len(t) /\ SubSeq(t, 1, Len(s)) = s

Zeros(n) == [i \in 1..n |-> NUL]

(***************************************************************************)
(* Slices.                                                                 *)
(***************************************************************************)
NilSlice == [id |-> 0, lo |-> 0, hi |-> 0]

SliceLen(s) == s.hi - s.lo

\* s[k:]
SliceFrom(s, k) == [s EXCEPT !.lo = s.lo + k]

\* the bytes a slice denotes in memory m
Content(m, s) == [i \in 1..SliceLen(s) |-> m[s.id][s.lo + i]]

\* memory m after data was stored at the front of slice s
Store(m, s, data) ==
    IF Len(data) = 0 THEN m
    ELSE [m EXCEPT ![s.id] =
            [i \in 1..Len(m[s.id]) |->
                IF i > s.lo /\ i <= s.lo + Len(data) THEN data[i - s.lo]
                ELSE m[s.id][i]]]

\* copy(dst, src): the count copied and the memory afterwards (memmove)
CopyCount(dst, src) == Min(SliceLen(dst), SliceLen(src))
Copy(m, dst, src) ==
    Store(m, dst, SubSeq(Content(m, src), 1, CopyCount(dst, src)))

(***************************************************************************)
(* The callers of PreamptiveReader.Read: the Open loop's scanner and the   *)
(* direct users of the reader.                                             *)
(***************************************************************************)
Loop == "loop"
ExtCallers == {"r1", "r2"}
ReadCallers == {Loop} \cup ExtCallers

VARIABLES
    mem,          \* the allocated byte arrays
    src,          \* the source reader r.r: the results it has yet to return
    ctxDone,      \* r.ctx is cancelled
    claimRead,    \* r.claimRead
    rbuf,         \* r.buf
    rerr,         \* r.err
    brClosed,     \* r.bytesRead is closed
    lpc,          \* position of the listen goroutine
    ln,           \* listen's n
    lbuf,         \* the buffer listen reads the source into
    rpc,          \* position of each caller inside Read
    rarg,         \* the buffer each caller passed to Read
    rres,         \* what each caller's last Read returned
    \* history of the reader
    nreads,       \* Read calls issued by direct users
    fetched,      \* every byte the source returned, in order
    delivered,    \* every byte Read returned to a caller, in order
    lastFetch,    \* the bytes returned by the last source fetch
    abState,      \* "none", "pending" (abandoned, fetch running), "set"
    afterCancel,  \* bytes returned by Reads that found the context cancelled
    eofAfter,     \* such a Read returned an error
    overlap,      \* the caller's Read started while the claim was held
    srcCalls      \* calls of r.r.Read that have not returned

prVars == <<mem, src, ctxDone, claimRead, rbuf, rerr, brClosed, lpc, ln, lbuf,
            rpc, rarg, rres>>
prHist == <<nreads, fetched, delivered, lastFetch, abState, afterCancel,
            eofAfter, overlap, srcCalls>>

(***************************************************************************)
(* The Dialogue, its Open loop with the loop's bufio.Scanner, and the      *)
(* callers of Close and Shutdown.                                          *)
(***************************************************************************)
Closers == {"c1", "c2"}

VARIABLES
    commands,     \* d.commands: name -> command
    running,      \* d.running
    ctxNil,       \* d.ctx == nil (ctxDone is d.ctx.Err() != nil; d.pr.ctx is d.ctx)
    mu,           \* holder of d.mu, or "none"
    closeCh,      \* d.close: the acknowledgement channels it buffers (capacity 1)
    pc,           \* position of the goroutine that calls Open
    exitErr,      \* the err argument of d.exit
    ackTok,       \* exit's ack: the closer whose channel the loop received
    openRes,      \* what the last Open returned ("none" before)
    opens,        \* calls of Open so far
    sbuf,         \* scanner.buf
    sstart,       \* scanner.start
    send,         \* scanner.end
    serr,         \* scanner.err
    stok,         \* scanner.Text()
    hkind,        \* the handler the loop is executing
    cpc,          \* position of each caller of Close or Shutdown
    ckind,        \* "Close" or "Shutdown"
    cres,         \* what the call returned
    cdead,        \* Shutdown found the context passed to it done
    \* history of the session
    ncalls,       \* calls of Close and Shutdown so far
    cAt,          \* where the loop was when the call was made
    acked,        \* the loop has acknowledged the call's request
    cFetching,    \* the source fetch the loop's read was blocked in when the call
                  \* was made has not returned yet
    lineSeq,      \* the tokens the loop's scanner returned, in order
    dispatched,   \* the field lists handed to dispatchHandler, in order
    nregs,        \* calls of RegisterCommands so far
    regRunning,   \* the last RegisterCommands call found d.running set
    accRes,       \* what the last call of the accessor PreamptiveReader() returned
    accAt,        \* where the loop was when the accessor handed out the reader
    \* one dispatch through a command tree
    ptree,        \* the commands of the tree: node -> Command
    pargs,        \* the tokens that follow the command name on the line
    ppc,          \* "new", "ready" (Open validated the registry), "done"
    pres,         \* what the dispatch did
    pflags,       \* the flags that hold a value other than their default: <<node, flag>>
    padv,         \* what the handler did with the CallChain it was given
    pcarry,       \* the dispatch of the previous line, and the flags it left
    nfargs        \* what d.CommandNotFound was called with

dlgVars == <<commands, running, ctxNil, mu, closeCh, pc, exitErr, ackTok, openRes,
             opens, sbuf, sstart, send, serr, stok, hkind, cpc, ckind, cres, cdead>>
lifeHist == <<nregs, regRunning, accRes, accAt>>
parseVars == <<ptree, pargs, ppc, pres, pflags, padv, pcarry, nfargs>>
dlgHist == <<ncalls, cAt, acked, cFetching, lineSeq, dispatched, lifeHist, parseVars>>

vars == <<prVars, prHist, dlgVars, dlgHist>>

(***************************************************************************)
(* The source reader r.r (io.Reader): a script of results.  A fetch into a *)
(* buffer of length L takes at most L bytes of the head result; the error  *)
(* of a result comes with its last bytes.  An exhausted script blocks.     *)
(***************************************************************************)
Chunk(d, e) == [data |-> d, err |-> e]

SrcFetch(s, L) ==
    LET h == Head(s)
        n == Min(L, Len(h.data))
    IN  IF n < Len(h.data)
        THEN [n |-> n, err |-> "nil", data |-> SubSeq(h.data, 1, n),
              rest |-> <<Chunk(SubSeq(h.data, n + 1, Len(h.data)), h.err)>> \o Tail(s)]
        ELSE [n |-> n, err |-> h.err, data |-> h.data, rest |-> Tail(s)]

(***************************************************************************)
(* PreamptiveReader.readFromBuf                                            *)
(***************************************************************************)
readFromBuf(m, rb, buf) ==
    IF SliceLen(rb) = 0
    THEN [n |-> 0, err |-> "EOF", mem |-> m, rbuf |-> rb]
    ELSE [n |-> CopyCount(buf, rb), err |-> "nil", mem |-> Copy(m, buf, rb),
          rbuf |-> SliceFrom(rb, CopyCount(buf, rb))]

(***************************************************************************)
(* Return from Read: the deferred claimRead.Store(false), and the history. *)
(***************************************************************************)
NoResult == [n |-> 0, err |-> "nil", data |-> <<>>, path |-> "none"]

\* path: how the call went: "claim" (claim lost), "zero" (fast path), "mem"
\* (context found cancelled), "read" (request to read the source)
ReadResult(m, c, n, err) ==
    [n |-> n, err |-> err, data |-> SubSeq(Content(m, rarg[c]), 1, n),
     path |-> IF rpc[c] = "recvMem" THEN "mem" ELSE "read"]

InRead(c) == rpc[c] \in {"sendMem", "recvMem", "sendRead", "recvRead"}

ReturnPc(c) == IF c = Loop THEN "ret" ELSE "idle"

ReadReturn(m, c, n, err, fromMem) ==
    /\ rpc' = [rpc EXCEPT ![c] = ReturnPc(c)]
    /\ rres' = [rres EXCEPT ![c] = ReadResult(m, c, n, err)]
    /\ claimRead' = FALSE
    /\ delivered' = delivered \o ReadResult(m, c, n, err).data
    /\ afterCancel' = IF fromMem THEN afterCancel \o ReadResult(m, c, n, err).data
                      ELSE afterCancel
    /\ eofAfter' = (eofAfter \/ (fromMem /\ err # "nil"))

(***************************************************************************)
(* PreamptiveReader.Read, up to its first channel operation.               *)
(***************************************************************************)
\* a Read that takes the reader whether or not it is claimed
CompareAndSwapIgnored == FALSE

\* !r.claimRead.CompareAndSwap(false, true)
CompareAndSwapFails == claimRead

\* a Read that does not look at the context before it asks for a source read
CtxNeverChecked == FALSE

\* select { case <-r.ctx.Done(): ... default: }: the Read finds the context done
CtxFoundDone == ctxDone

ReadEnter(c, buf) ==
    /\ overlap' = [overlap EXCEPT ![c] = \E d \in ReadCallers \ {c} : InRead(d)]
    /\ rarg' = [rarg EXCEPT ![c] = buf]
    /\ IF CompareAndSwapFails
       THEN /\ rpc' = [rpc EXCEPT ![c] = ReturnPc(c)]
            /\ rres' = [rres EXCEPT ![c] = [n |-> 0, err |-> "ErrClaim", data |-> <<>>, path |-> "claim"]]
            /\ UNCHANGED <<claimRead, delivered, afterCancel, eofAfter>>
       ELSE IF CtxFoundDone
       THEN IF SliceLen(buf) = 0
            THEN /\ rpc' = [rpc EXCEPT ![c] = ReturnPc(c)]
                 /\ rres' = [rres EXCEPT ![c] = [n |-> 0, err |-> "nil", data |-> <<>>, path |-> "zero"]]
                 /\ claimRead' = FALSE
                 /\ UNCHANGED <<delivered, afterCancel, eofAfter>>
            ELSE /\ rpc' = [rpc EXCEPT ![c] = "sendMem"]
                 /\ rres' = [rres EXCEPT ![c] = NoResult]
                 /\ claimRead' = TRUE
                 /\ UNCHANGED <<delivered, afterCancel, eofAfter>>
       ELSE /\ rpc' = [rpc EXCEPT ![c] = "sendRead"]
            /\ rres' = [rres EXCEPT ![c] = NoResult]
            /\ claimRead' = TRUE
            /\ UNCHANGED <<delivered, afterCancel, eofAfter>>

(***************************************************************************)
(* PreamptiveReader.listen: the worker goroutine.  c is the caller whose   *)
(* channel operation the worker's select meets.                            *)
(***************************************************************************)
\* listen's "if err != nil": store the sticky error, close bytesRead, return
ListenAfter(n, err) ==
    /\ ln' = n
    /\ IF err # "nil"
       THEN /\ rerr' = err
            /\ brClosed' = TRUE
            /\ lpc' = "done"
       ELSE /\ lpc' = "select2"
            /\ UNCHANGED <<rerr, brClosed>>

\* first select, case buf := <-r.writeFromMem
ListenRecvMem(c) ==
    /\ lpc = "select1"
    /\ rpc[c] = "sendMem"
    /\ LET r == readFromBuf(mem, rbuf, rarg[c])
       IN  /\ mem' = r.mem
           /\ rbuf' = r.rbuf
           /\ ListenAfter(r.n, r.err)
    /\ rpc' = [rpc EXCEPT ![c] = "recvMem"]
    /\ UNCHANGED <<src, ctxDone, claimRead, lbuf, rarg, rres, prHist, dlgVars, dlgHist>>

\* first select, case buf := <-r.writeFromRead: commit to a source read
ListenRecvRead(c) ==
    /\ lpc = "select1"
    /\ rpc[c] = "sendRead"
    /\ lpc' = "fetching"
    /\ lbuf' = rarg[c]
    /\ rpc' = [rpc EXCEPT ![c] = "recvRead"]
    /\ abState' = "none"
    /\ afterCancel' = <<>>
    /\ eofAfter' = FALSE
    /\ srcCalls' = srcCalls + 1
    /\ UNCHANGED <<mem, src, ctxDone, claimRead, rbuf, rerr, brClosed, ln, rarg, rres,
                   nreads, fetched, delivered, lastFetch, overlap, dlgVars, dlgHist>>

\* n, err = r.r.Read(buf); r.buf = buf
SourceBuf(buf) == buf

ListenFetch ==
    /\ lpc = "fetching"
    /\ src # <<>>
    /\ LET f == SrcFetch(src, SliceLen(lbuf))
       IN  /\ src' = f.rest
           /\ mem' = Store(mem, lbuf, f.data)
           /\ ListenAfter(f.n, f.err)
           /\ fetched' = fetched \o f.data
           /\ lastFetch' = f.data
    /\ srcCalls' = srcCalls - 1
    /\ rbuf' = SourceBuf(lbuf)
    /\ abState' = IF abState = "pending" THEN "set" ELSE abState
    /\ cFetching' = [c \in Closers |-> FALSE]
    /\ UNCHANGED <<ctxDone, claimRead, lbuf, rpc, rarg, rres,
                   nreads, delivered, afterCancel, eofAfter, overlap, dlgVars,
                   ncalls, cAt, acked, lineSeq, dispatched, lifeHist, parseVars>>

\* second select, case buf := <-r.writeFromMem: the error of readFromBuf is dropped
ListenSel2Mem(c) ==
    /\ lpc = "select2"
    /\ rpc[c] = "sendMem"
    /\ LET r == readFromBuf(mem, rbuf, rarg[c])
       IN  /\ mem' = r.mem
           /\ rbuf' = r.rbuf
           /\ ln' = r.n
    /\ lpc' = "sendN"
    /\ rpc' = [rpc EXCEPT ![c] = "recvMem"]
    /\ UNCHANGED <<src, ctxDone, claimRead, rerr, brClosed, lbuf, rarg, rres, prHist, dlgVars, dlgHist>>

\* r.bytesRead <- n, met by the Read that waits on bytesRead
ListenSend(c) ==
    /\ lpc \in {"select2", "sendN"}
    /\ rpc[c] \in {"recvMem", "recvRead"}
    /\ lpc' = "select1"
    /\ ReadReturn(mem, c, ln, "nil", rpc[c] = "recvMem")
    /\ UNCHANGED <<mem, src, ctxDone, rbuf, rerr, brClosed, ln, lbuf, rarg,
                   nreads, fetched, lastFetch, abState, overlap, srcCalls, dlgVars, dlgHist>>

(***************************************************************************)
(* PreamptiveReader.Read, after the request was handed to the worker.      *)
(***************************************************************************)
\* n, ok := <-r.bytesRead with the channel closed: return 0, r.err
ReadClosed(c) ==
    /\ rpc[c] \in {"recvMem", "recvRead"}
    /\ brClosed
    /\ ReadReturn(mem, c, 0, rerr, rpc[c] = "recvMem")
    /\ UNCHANGED <<mem, src, ctxDone, rbuf, rerr, brClosed, lpc, ln, lbuf, rarg,
                   nreads, fetched, lastFetch, abState, overlap, srcCalls, dlgVars, dlgHist>>

\* case <-r.ctx.Done(): return 0, r.ctx.Err()
ReadCancelled(c) ==
    /\ rpc[c] = "recvRead"
    /\ ctxDone
    /\ ReadReturn(mem, c, 0, "Canceled", FALSE)
    /\ abState' = IF lpc = "fetching" THEN "pending" ELSE "set"
    /\ UNCHANGED <<mem, src, ctxDone, rbuf, rerr, brClosed, lpc, ln, lbuf, rarg,
                   nreads, fetched, lastFetch, overlap, srcCalls, dlgVars, dlgHist>>

Worker(c) ==
    \/ ListenRecvMem(c)
    \/ ListenRecvRead(c)
    \/ ListenSel2Mem(c)
    \/ ListenSend(c)
    \/ ReadClosed(c)
    \/ ReadCancelled(c)

(***************************************************************************)
(* The reader on its own (NewPreamptiveReader): direct users call Read     *)
(* with fresh buffers, and the context is cancelled at any moment.         *)
(***************************************************************************)
\* Longest source of SpecPR.
MaxSrcLen == 2

SrcData(N) == [i \in 1..N |-> 96 + i]

NonEmpty(s) == SelectSeq(s, LAMBDA ch : ch.data # <<>> \/ ch.err # "nil")

\* N bytes returned in two fetches split at p, ended by e, the end coming
\* with the last bytes (w) or by itself; "block" never ends.
Script(N, p, e, w) ==
    LET d == SrcData(N)
        a == SubSeq(d, 1, p)
        b == SubSeq(d, p + 1, N)
    IN  IF e = "block" THEN NonEmpty(<<Chunk(a, "nil"), Chunk(b, "nil")>>)
        ELSE IF w THEN NonEmpty(<<Chunk(a, "nil"), Chunk(b, e)>>)
        ELSE NonEmpty(<<Chunk(a, "nil"), Chunk(b, "nil")>>) \o <<Chunk(<<>>, e)>>

ScriptsPR ==
    UNION { { Script(N, p, e, w) : p \in 0..N, e \in {"EOF", "ERR", "block"},
                                   w \in BOOLEAN } : N \in 0..MaxSrcLen }

InitReader ==
    /\ mem = <<>>
    /\ ctxDone = FALSE
    /\ claimRead = FALSE
    /\ rbuf = NilSlice
    /\ rerr = "nil"
    /\ brClosed = FALSE
    /\ ln = 0
    /\ lbuf = NilSlice
    /\ rpc = [c \in ReadCallers |-> "idle"]
    /\ rarg = [c \in ReadCallers |-> NilSlice]
    /\ rres = [c \in ReadCallers |-> NoResult]
    /\ nreads = 0
    /\ fetched = <<>>
    /\ delivered = <<>>
    /\ lastFetch = <<>>
    /\ abState = "none"
    /\ afterCancel = <<>>
    /\ eofAfter = FALSE
    /\ overlap = [c \in ReadCallers |-> FALSE]
    /\ srcCalls = 0

\* the session before anything was registered or opened
NoCommands == [x \in {} |-> x]

InitSession ==
    /\ running = FALSE
    /\ ctxNil = TRUE
    /\ mu = "none"
    /\ closeCh = <<>>
    /\ pc = "idle"
    /\ exitErr = "nil"
    /\ ackTok = "none"
    /\ openRes = "none"
    /\ opens = 0
    /\ sbuf = NilSlice
    /\ sstart = 0
    /\ send = 0
    /\ serr = "nil"
    /\ stok = <<>>
    /\ hkind = "none"
    /\ cpc = [c \in Closers |-> "idle"]
    /\ ckind = [c \in Closers |-> "none"]
    /\ cres = [c \in Closers |-> "none"]
    /\ cdead = [c \in Closers |-> FALSE]
    /\ ncalls = 0
    /\ cAt = [c \in Closers |-> "none"]
    /\ acked = [c \in Closers |-> FALSE]
    /\ cFetching = [c \in Closers |-> FALSE]
    /\ lineSeq = <<>>
    /\ dispatched = <<>>
    /\ nregs = 0
    /\ regRunning = FALSE
    /\ accRes = "none"
    /\ accAt = "none"

\* no line is followed through a command tree
NoDispatch ==
    /\ ptree = <<>>
    /\ pargs = <<>>
    /\ ppc = "none"
    /\ pres = <<>>
    /\ pflags = {}
    /\ padv = <<>>
    /\ pcarry = <<>>
    /\ nfargs = <<>>

\* NewPreamptiveReader(ctx, r): the worker is started at once
InitPR ==
    /\ InitReader
    /\ lpc = "select1"
    /\ src \in ScriptsPR
    /\ InitSession
    /\ NoDispatch
    /\ commands = NoCommands

\* a direct user calls Read(make([]byte, L))
PRead(c, L) ==
    /\ rpc[c] = "idle"
    /\ nreads < MaxReads
    /\ nreads' = nreads + 1
    /\ mem' = Append(mem, Zeros(L))
    /\ ReadEnter(c, [id |-> Len(mem) + 1, lo |-> 0, hi |-> L])
    /\ UNCHANGED <<src, ctxDone, rbuf, rerr, brClosed, lpc, ln, lbuf,
                   fetched, lastFetch, abState, srcCalls, dlgVars, dlgHist>>

\* the context handed to NewPreamptiveReader is cancelled
PCancel ==
    /\ ~ctxDone
    /\ ctxDone' = TRUE
    /\ UNCHANGED <<mem, src, claimRead, rbuf, rerr, brClosed, lpc, ln, lbuf,
                   rpc, rarg, rres, prHist, dlgVars, dlgHist>>

NextPR ==
    \/ \E c \in ExtCallers, L \in 0..MaxBufLen : PRead(c, L)
    \/ PCancel
    \/ ListenFetch
    \/ \E c \in ExtCallers : Worker(c)

SpecPR == InitPR /\ [][NextPR]_vars

\* The reader with its goroutines scheduled fairly: the worker and the callers
\* inside Read go on whenever they can.  Nothing obliges the source to return
\* from a fetch, a user to call Read, or the context to be cancelled.
ReaderFairness == \A c \in ExtCallers : WF_vars(Worker(c))

SpecPRFair == InitPR /\ [][NextPR]_vars /\ ReaderFairness

(***************************************************************************)
(* bufio.Scanner with the ScanLines split function, as Open uses it, and   *)
(* strings.Fields.                                                         *)
(***************************************************************************)
\* bufio's startBufSize (4096) and MaxScanTokenSize (64 * 1024), scaled down
StartBufSize == 3
MaxScanTokenSize == 6

IndexOf(data, b) ==
    IF \E i \in 1..Len(data) : data[i] = b
    THEN CHOOSE i \in 1..Len(data) : data[i] = b /\ \A j \in 1..(i - 1) : data[j] # b
    ELSE 0

dropCR(data) ==
    IF Len(data) > 0 /\ data[Len(data)] = CR THEN SubSeq(data, 1, Len(data) - 1) ELSE data

\* bufio.ScanLines: has is "token != nil"
ScanLines(data, atEOF) ==
    IF atEOF /\ Len(data) = 0 THEN [advance |-> 0, token |-> <<>>, has |-> FALSE]
    ELSE IF IndexOf(data, NL) > 0
    THEN [advance |-> IndexOf(data, NL),
          token |-> dropCR(SubSeq(data, 1, IndexOf(data, NL) - 1)), has |-> TRUE]
    ELSE IF atEOF THEN [advance |-> Len(data), token |-> dropCR(data), has |-> TRUE]
    ELSE [advance |-> 0, token |-> <<>>, has |-> FALSE]

\* Scanner.setErr
setErr(old, err) == IF old = "nil" \/ old = "EOF" THEN err ELSE old

\* Scanner.Err
ScannerErr(err) == IF err = "EOF" THEN "nil" ELSE err

IsSpace(b) == b \in {9, 10, 11, 12, 13, 32}

RECURSIVE Fields(_)
Fields(str) ==
    IF Len(str) = 0 THEN <<>>
    ELSE IF IsSpace(str[1]) THEN Fields(Tail(str))
    ELSE LET stop == IF \E i \in 1..Len(str) : IsSpace(str[i])
                     THEN CHOOSE i \in 1..Len(str) :
                            IsSpace(str[i]) /\ \A j \in 1..(i - 1) : ~IsSpace(str[j])
                     ELSE Len(str) + 1
         IN  <<SubSeq(str, 1, stop - 1)>> \o Fields(SubSeq(str, stop, Len(str)))

(***************************************************************************)
(* Dialogue.init                                                           *)
(***************************************************************************)
\* Open calls made on one session.
MaxOpens == 2

\* the names of the configuration: d.QuitCmd, d.HelpCmd ("" is <<>>)
QuitCmd == <<113>>
HelpCmd == <<>>

Command(name, exec) == [Name |-> name, Exec |-> exec]

WithCommand(cmds, name, exec) ==
    IF name # <<>> /\ name \notin DOMAIN cmds
    THEN [x \in DOMAIN cmds \cup {name} |->
            IF x = name THEN Command(name, exec) ELSE cmds[x]]
    ELSE cmds

\* Command.init: "nil" or the error of the command
CommandInit(cmd) ==
    IF cmd.Name = <<>> THEN "ErrNoName"
    ELSE IF cmd.Exec = "none" THEN "ErrNoExec"
    ELSE "nil"

\* Dialogue.initCommandsLocked
initCommandsLocked(cmds) ==
    IF \E x \in DOMAIN cmds : CommandInit(cmds[x]) # "nil"
    THEN CommandInit(cmds[CHOOSE x \in DOMAIN cmds : CommandInit(cmds[x]) # "nil"])
    ELSE "nil"

\* the errors the loop over d.commands can meet: the map is visited in any order
InitErrors(cmds) == {CommandInit(cmds[x]) : x \in DOMAIN cmds} \ {"nil"}

\* a registry that holds nothing
EmptyRegistryIgnored(cmds) == FALSE

\* if len(d.commands) == 0 { return errors.New("dialogue: no commands") }
EmptyRegistry(cmds) == DOMAIN cmds = {}

scanVars == <<sbuf, sstart, send, serr, stok>>
closerVars == <<cpc, ckind, cres, cdead>>
closerHist == <<ncalls, cAt, acked, cFetching>>
workerVars == <<src, rbuf, rerr, brClosed, ln, lbuf>>
readVars == <<claimRead, rpc, rarg, rres>>

\* a session that makes a reader, and with it a worker, each time it is opened
NewReaderAlways(l) == "select1"

\* if d.pr == nil { d.pr = NewPreamptiveReader(d.ctx, d.R) }: the position of
\* the worker after init, l being its position before
NewReaderIfNone(l) == IF l = "nostart" THEN "select1" ELSE l

\* Open: d.init() succeeds, scanner := bufio.NewScanner(d.pr)
OpenStart ==
    /\ pc = "idle"
    /\ opens < MaxOpens
    /\ mu = "none"
    /\ opens' = opens + 1
    /\ ~EmptyRegistry(commands)
    /\ LET cmds == WithCommand(WithCommand(commands, QuitCmd, "quit"), HelpCmd, "help")
       IN  /\ initCommandsLocked(cmds) = "nil"
           /\ commands' = cmds
    /\ ctxDone' = IF ctxNil \/ ctxDone THEN FALSE ELSE ctxDone
    /\ ctxNil' = FALSE
    /\ lpc' = NewReaderIfNone(lpc)
    /\ running' = TRUE
    /\ pc' = "check"
    /\ sbuf' = NilSlice
    /\ sstart' = 0
    /\ send' = 0
    /\ serr' = "nil"
    /\ stok' = <<>>
    /\ UNCHANGED <<mem, workerVars, readVars, prHist, mu, closeCh, exitErr, ackTok,
                   openRes, hkind, closerVars, dlgHist>>

\* Open: d.init() fails and Open returns its error.  The quit and help commands
\* are put into the registry before the commands are validated.
OpenFail ==
    /\ pc = "idle"
    /\ opens < MaxOpens
    /\ mu = "none"
    /\ opens' = opens + 1
    /\ IF EmptyRegistry(commands)
       THEN /\ openRes' = "ErrNoCommands"
            /\ UNCHANGED commands
       ELSE LET cmds == WithCommand(WithCommand(commands, QuitCmd, "quit"), HelpCmd, "help")
            IN  /\ \E e \in InitErrors(cmds) : openRes' = e
                /\ commands' = cmds
    /\ UNCHANGED <<prVars, prHist, running, ctxNil, mu, closeCh, pc, exitErr, ackTok,
                   scanVars, hkind, closerVars, dlgHist>>

(***************************************************************************)
(* Dialogue.exit(err): at the top of the loop (pc "check", err nil) and on *)
(* the loop's way out (pc "exit").                                         *)
(***************************************************************************)
ExitArg == IF pc = "check" THEN "nil" ELSE exitErr

\* a loop that looks for a close request while its read is in progress as well
CheckpointsMidRead == {"check", "exit", "reading"}

\* where the loop calls d.exit: before the prompt is written (d.exit(nil)) and
\* on each return of Open (return d.exit(err))
Checkpoints == {"check", "exit"}

\* the select finds an acknowledgement channel in d.close
ExitReceive ==
    /\ pc \in Checkpoints
    /\ mu = "none"
    /\ closeCh # <<>>
    /\ ackTok' = Head(closeCh)
    /\ closeCh' = Tail(closeCh)
    /\ mu' = Loop
    /\ pc' = "ackSend"
    /\ UNCHANGED <<prVars, prHist, commands, running, ctxNil, exitErr, openRes, opens,
                   scanVars, hkind, closerVars, dlgHist>>

\* the select takes its default case
ExitDefault ==
    /\ pc \in Checkpoints
    /\ mu = "none"
    /\ closeCh = <<>>
    /\ IF ExitArg # "nil"
       THEN /\ ctxDone' = TRUE
            /\ running' = FALSE
            /\ pc' = "idle"
            /\ openRes' = ExitArg
       ELSE /\ UNCHANGED <<ctxDone, running>>
            /\ IF pc = "check"
               THEN /\ pc' = "prompt"
                    /\ UNCHANGED openRes
               ELSE /\ pc' = "idle"
                    /\ openRes' = "nil"
    /\ UNCHANGED <<mem, workerVars, lpc, readVars, prHist, commands, ctxNil, mu, closeCh,
                   exitErr, ackTok, opens, scanVars, hkind, closerVars, dlgHist>>

\* what the caller of Close or Shutdown does once its channel was served
AfterAck(at) ==
    CASE at = "wait" -> [pc |-> "idle", res |-> "nil"]
      [] at = "sdSelect" -> [pc |-> "sdCancel", res |-> "none"]
      [] at = "sdWait" -> [pc |-> "idle", res |-> "DeadlineExceeded"]

\* ack <- struct{}{}: the channel is unbuffered, its receiver is the caller
ExitAck ==
    /\ pc = "ackSend"
    /\ cpc[ackTok] \in {"wait", "sdSelect", "sdWait"}
    /\ acked' = [acked EXCEPT ![ackTok] = TRUE]
    /\ cpc' = [cpc EXCEPT ![ackTok] = AfterAck(cpc[ackTok]).pc]
    /\ cres' = [cres EXCEPT ![ackTok] = AfterAck(cpc[ackTok]).res]
    /\ pc' = "waitCtx"
    /\ UNCHANGED <<prVars, prHist, commands, running, ctxNil, mu, closeCh, exitErr,
                   ackTok, openRes, opens, scanVars, hkind, ckind, cdead, ncalls, cAt,
                   cFetching, lineSeq, dispatched, lifeHist, parseVars>>

\* an exit that does not wait for the context
CtxDoneSkipped == TRUE

\* <-d.ctx.Done() can be received
CtxDoneReceived == ctxDone

\* <-d.ctx.Done(); return ErrDialogueClosed
ExitClosed ==
    /\ pc = "waitCtx"
    /\ CtxDoneReceived
    /\ mu' = "none"
    /\ pc' = "idle"
    /\ openRes' = "ErrDialogueClosed"
    /\ UNCHANGED <<prVars, prHist, commands, running, ctxNil, closeCh, exitErr, ackTok,
                   opens, scanVars, hkind, closerVars, dlgHist>>

(***************************************************************************)
(* The body of the Open loop.                                              *)
(***************************************************************************)
\* d.W.Write([]byte(d.Prefix)) succeeds or fails
OpenPrompt ==
    /\ pc = "prompt"
    /\ \/ /\ pc' = "scan"
          /\ UNCHANGED exitErr
       \/ /\ pc' = "exit"
          /\ exitErr' = "EWrite"
    /\ UNCHANGED <<prVars, prHist, commands, running, ctxNil, mu, closeCh, ackTok,
                   openRes, opens, scanVars, hkind, closerVars, dlgHist>>

\* scanner.buf[scanner.start:scanner.end]
ScanData == IF sbuf = NilSlice THEN <<>> ELSE SubSeq(mem[sbuf.id], sstart + 1, send)

ScanSplit == ScanLines(ScanData, serr # "nil")

ScanHasToken == (send > sstart \/ serr # "nil") /\ ScanSplit.has

\* Scan returns true: token := scanner.Text()
ScanToken ==
    /\ pc = "scan"
    /\ ScanHasToken
    /\ sstart' = sstart + ScanSplit.advance
    /\ stok' = ScanSplit.token
    /\ lineSeq' = Append(lineSeq, ScanSplit.token)
    /\ pc' = "dispatch"
    /\ UNCHANGED <<prVars, prHist, commands, running, ctxNil, mu, closeCh, exitErr,
                   ackTok, openRes, opens, sbuf, send, serr, hkind, closerVars,
                   closerHist, dispatched, lifeHist, parseVars>>

\* Scan returns false: return d.exit(scanner.Err())
ScanStop ==
    /\ pc = "scan"
    /\ ~ScanHasToken
    /\ serr # "nil"
    /\ sstart' = 0
    /\ send' = 0
    /\ exitErr' = ScannerErr(serr)
    /\ pc' = "exit"
    /\ UNCHANGED <<prVars, prHist, commands, running, ctxNil, mu, closeCh, ackTok,
                   openRes, opens, sbuf, serr, stok, hkind, closerVars, dlgHist>>

\* Scan must read more data: shift, grow, then s.r.Read(s.buf[s.end:len(s.buf)])
ScanShifts == sstart > 0 /\ (send = SliceLen(sbuf) \/ sstart > SliceLen(sbuf) \div 2)
ScanShiftedEnd == IF ScanShifts THEN send - sstart ELSE send
ScanShiftedStart == IF ScanShifts THEN 0 ELSE sstart
ScanShiftedMem == IF ScanShifts THEN Store(mem, sbuf, ScanData) ELSE mem
ScanFull == ScanShiftedEnd = SliceLen(sbuf)
ScanNewSize ==
    Min(IF SliceLen(sbuf) = 0 THEN StartBufSize ELSE 2 * SliceLen(sbuf), MaxScanTokenSize)

ScanRead ==
    /\ pc = "scan"
    /\ ~ScanHasToken
    /\ serr = "nil"
    /\ IF ScanFull /\ SliceLen(sbuf) >= MaxScanTokenSize
       THEN /\ serr' = "ErrTooLong"
            /\ exitErr' = "ErrTooLong"
            /\ pc' = "exit"
            /\ mem' = ScanShiftedMem
            /\ sstart' = ScanShiftedStart
            /\ send' = ScanShiftedEnd
            /\ UNCHANGED <<sbuf, readVars, delivered, afterCancel, eofAfter, overlap>>
       ELSE /\ IF ScanFull
               THEN /\ mem' = Append(ScanShiftedMem,
                                     ScanData \o Zeros(ScanNewSize - Len(ScanData)))
                    /\ sbuf' = [id |-> Len(mem) + 1, lo |-> 0, hi |-> ScanNewSize]
                    /\ sstart' = 0
                    /\ send' = ScanShiftedEnd - ScanShiftedStart
               ELSE /\ mem' = ScanShiftedMem
                    /\ sbuf' = sbuf
                    /\ sstart' = ScanShiftedStart
                    /\ send' = ScanShiftedEnd
            /\ ReadEnter(Loop, [sbuf' EXCEPT !.lo = send'])
            /\ pc' = "reading"
            /\ UNCHANGED <<serr, exitErr>>
    /\ UNCHANGED <<workerVars, lpc, ctxDone, nreads, fetched, lastFetch, abState, srcCalls,
                   commands, running, ctxNil, mu, closeCh, ackTok, openRes, opens,
                   stok, hkind, closerVars, dlgHist>>

\* the scanner takes what Read returned: s.end += n; s.setErr(err)
ScanReadDone ==
    /\ pc = "reading"
    /\ rpc[Loop] = "ret"
    /\ rpc' = [rpc EXCEPT ![Loop] = "idle"]
    /\ send' = send + rres[Loop].n
    /\ serr' = IF rres[Loop].err # "nil" THEN setErr(serr, rres[Loop].err) ELSE serr
    /\ pc' = "scan"
    /\ UNCHANGED <<mem, workerVars, lpc, ctxDone, claimRead, rarg, rres, prHist,
                   commands, running, ctxNil, mu, closeCh, exitErr, ackTok, openRes,
                   opens, sbuf, sstart, stok, hkind, closerVars, dlgHist>>

\* the handler dispatchHandler runs for a command name
HandlerOf(cmds, name) == IF name \in DOMAIN cmds THEN cmds[name].Exec ELSE "notfound"

\* where the loop is once dispatchHandler was started in a goroutine of its own
AfterGoDispatch == "check"

\* err := d.dispatchHandler(fields[0], fields[1:]): the loop is inside the call
\* until the handler and the deferred clean have returned
AfterDispatchCall == "handler"

\* fields := strings.Fields(token); d.dispatchHandler(fields[0], fields[1:])
OpenDispatch ==
    /\ pc = "dispatch"
    /\ IF Len(Fields(stok)) = 0
       THEN /\ pc' = "check"
            /\ UNCHANGED <<hkind, dispatched>>
       ELSE /\ pc' = AfterDispatchCall
            /\ hkind' = HandlerOf(commands, Fields(stok)[1])
            /\ dispatched' = Append(dispatched, Fields(stok))
    /\ UNCHANGED <<prVars, prHist, commands, running, ctxNil, mu, closeCh, exitErr,
                   ackTok, openRes, opens, scanVars, closerVars, closerHist, lineSeq,
                   lifeHist, parseVars>>

\* handlers whose quit command returns nil
HandlerResultsQuitNil(kind) ==
    CASE kind = "user" -> {"nil", "EHandler"}
      [] kind = "help" -> {"nil", "EWrite"}
      [] OTHER -> {"nil"}

\* the errors a handler can return: a registered Exec any error, the quit
\* command ErrDialogueClosed, the help command the error of its write, the
\* default CommandNotFound nil
HandlerResults(kind) ==
    CASE kind = "user" -> {"nil", "EHandler"}
      [] kind = "quit" -> {"ErrDialogueClosed"}
      [] kind = "help" -> {"nil", "EWrite"}
      [] OTHER -> {"nil"}

\* the handler returns: if err != nil { return d.exit(err) }
OpenHandlerReturn ==
    /\ pc = "handler"
    /\ \E err \in HandlerResults(hkind) :
          /\ exitErr' = err
          /\ pc' = IF err = "nil" THEN "check" ELSE "exit"
    /\ hkind' = "none"
    /\ UNCHANGED <<prVars, prHist, commands, running, ctxNil, mu, closeCh, ackTok,
                   openRes, opens, scanVars, closerVars, dlgHist>>

(***************************************************************************)
(* Dialogue.Close and Dialogue.Shutdown.                                   *)
(***************************************************************************)
\* Calls of Close and Shutdown made on one session.
MaxCloseCalls == 2

\* where the loop is: "idle" outside Open, "blockedRead" when its Read waits for
\* a source fetch, "reading" elsewhere in scanner.Scan, "loop" otherwise
LoopAt ==
    IF pc = "idle" THEN "idle"
    ELSE IF pc = "reading" /\ rpc[Loop] = "recvRead" /\ lpc = "fetching" THEN "blockedRead"
    ELSE IF pc \in {"scan", "reading"} THEN "reading"
    ELSE "loop"

AfterSignal(kind) == IF kind = "Close" THEN "cancel" ELSE "sdSelect"

\* if !d.running { return nil }
NotRunning == ~running

\* d.mu.Lock(); if !d.running {...}; notify := d.signalClosingLocked(); d.mu.Unlock()
\* The send on d.close blocks, with d.mu held, while the channel is full: its
\* only receiver is d.exit, which needs d.mu.
\* The callers are interchangeable: "c2" is the name of a caller that is not the
\* first to call.
CloseCall(c, kind) ==
    /\ cpc[c] = "idle"
    /\ ncalls < MaxCloseCalls
    /\ c = "c1" \/ ncalls > 0
    /\ mu = "none"
    /\ ncalls' = ncalls + 1
    /\ ckind' = [ckind EXCEPT ![c] = kind]
    /\ cAt' = [cAt EXCEPT ![c] = LoopAt]
    /\ cFetching' = [cFetching EXCEPT ![c] = (LoopAt = "blockedRead")]
    /\ acked' = [acked EXCEPT ![c] = FALSE]
    /\ cdead' = [cdead EXCEPT ![c] = FALSE]
    /\ IF NotRunning
       THEN /\ cres' = [cres EXCEPT ![c] = "nil"]
            /\ UNCHANGED <<cpc, running, closeCh, mu>>
       ELSE /\ cres' = [cres EXCEPT ![c] = "none"]
            /\ running' = FALSE
            /\ IF Len(closeCh) < 1
               THEN /\ closeCh' = Append(closeCh, c)
                    /\ cpc' = [cpc EXCEPT ![c] = AfterSignal(kind)]
                    /\ UNCHANGED mu
               ELSE /\ mu' = c
                    /\ cpc' = [cpc EXCEPT ![c] = "sendBlocked"]
                    /\ UNCHANGED closeCh
    /\ UNCHANGED <<prVars, prHist, commands, ctxNil, pc, exitErr, ackTok, openRes,
                   opens, scanVars, hkind, lineSeq, dispatched, lifeHist, parseVars>>

\* Close: d.cancel(), then <-notify
CloseCancel(c) ==
    /\ cpc[c] = "cancel"
    /\ ctxDone' = TRUE
    /\ cpc' = [cpc EXCEPT ![c] = "wait"]
    /\ UNCHANGED <<mem, workerVars, lpc, readVars, prHist, commands, running, ctxNil,
                   mu, closeCh, pc, exitErr, ackTok, openRes, opens, scanVars, hkind,
                   ckind, cres, cdead, dlgHist>>

\* Shutdown: the context passed to it is done and the select takes
\* case <-ctx.Done(): d.cancel(), then <-notify
ShutdownEscalate(c) ==
    /\ cpc[c] = "sdSelect"
    /\ cdead' = [cdead EXCEPT ![c] = TRUE]
    /\ ctxDone' = TRUE
    /\ cpc' = [cpc EXCEPT ![c] = "sdWait"]
    /\ UNCHANGED <<mem, workerVars, lpc, readVars, prHist, commands, running, ctxNil,
                   mu, closeCh, pc, exitErr, ackTok, openRes, opens, scanVars, hkind,
                   ckind, cres, dlgHist>>

\* Shutdown: case <-notify: d.cancel(); return nil
ShutdownCancel(c) ==
    /\ cpc[c] = "sdCancel"
    /\ ctxDone' = TRUE
    /\ cpc' = [cpc EXCEPT ![c] = "idle"]
    /\ cres' = [cres EXCEPT ![c] = "nil"]
    /\ UNCHANGED <<mem, workerVars, lpc, readVars, prHist, commands, running, ctxNil,
                   mu, closeCh, pc, exitErr, ackTok, openRes, opens, scanVars, hkind,
                   ckind, cdead, dlgHist>>

(***************************************************************************)
(* Dialogue.RegisterCommands and the accessor Dialogue.PreamptiveReader.   *)
(***************************************************************************)
\* Calls of RegisterCommands made on one session.
MaxRegs == 2

\* a RegisterCommands that registers whatever the session does
RegisterAlways == FALSE

\* if d.running { return }
RegisterSkips == running

\* d.commands[c.Name] = c
Registry(cmds, cmd) ==
    [x \in DOMAIN cmds \cup {cmd.Name} |-> IF x = cmd.Name THEN cmd ELSE cmds[x]]

RegisterCommands(cmd) ==
    /\ nregs < MaxRegs
    /\ mu = "none"
    /\ nregs' = nregs + 1
    /\ regRunning' = running
    /\ commands' = IF RegisterSkips THEN commands ELSE Registry(commands, cmd)
    /\ UNCHANGED <<prVars, prHist, running, ctxNil, mu, closeCh, pc, exitErr, ackTok,
                   openRes, opens, scanVars, hkind, closerVars, ncalls, cAt, acked,
                   cFetching, lineSeq, dispatched, accRes, accAt, parseVars>>

\* if d.running { return nil }; return d.pr  (d.pr is nil until the first Open)
AccessorResult == IF running \/ lpc = "nostart" THEN "nil" ELSE "pr"

Accessor ==
    /\ mu = "none"
    /\ accRes' = AccessorResult
    /\ accAt' = IF AccessorResult = "pr" THEN LoopAt ELSE "none"
    /\ UNCHANGED <<prVars, prHist, dlgVars, ncalls, cAt, acked, cFetching, lineSeq,
                   dispatched, nregs, regRunning, parseVars>>

(***************************************************************************)
(* The session: one command registered, the source a text typed in one or  *)
(* two pieces.                                                             *)
(***************************************************************************)
\* Longest input of Spec.
MaxTextLen == 4

\* the input "a\nq\na\nq\n..."
TextByte(i) == IF i % 2 = 0 THEN NL ELSE IF i % 4 = 1 THEN 97 ELSE 113

TextScript(N, p, e, w) ==
    LET d == [i \in 1..N |-> TextByte(i)]
        a == SubSeq(d, 1, p)
        b == SubSeq(d, p + 1, N)
    IN  IF e = "block" THEN NonEmpty(<<Chunk(a, "nil"), Chunk(b, "nil")>>)
        ELSE IF w THEN NonEmpty(<<Chunk(a, "nil"), Chunk(b, e)>>)
        ELSE NonEmpty(<<Chunk(a, "nil"), Chunk(b, "nil")>>) \o <<Chunk(<<>>, e)>>

Scripts ==
    UNION { { TextScript(N, p, e[1], e[2]) :
                p \in 0..N,
                e \in {<<"EOF", FALSE>>, <<"EOF", TRUE>>, <<"ERR", FALSE>>, <<"block", FALSE>>} } :
            N \in 0..MaxTextLen }

\* d.RegisterCommands(&Command{Name: "a", Exec: ...}) was called
Registered == [x \in {<<97>>} |-> Command(x, "user")]

Init ==
    /\ InitReader
    /\ lpc = "nostart"
    /\ src \in Scripts
    /\ InitSession
    /\ NoDispatch
    /\ commands = Registered

Next ==
    \/ OpenStart
    \/ ExitReceive
    \/ ExitDefault
    \/ ExitAck
    \/ ExitClosed
    \/ OpenPrompt
    \/ ScanToken
    \/ ScanStop
    \/ ScanRead
    \/ ScanReadDone
    \/ OpenDispatch
    \/ OpenHandlerReturn
    \/ \E c \in Closers, kind \in {"Close", "Shutdown"} : CloseCall(c, kind)
    \/ \E c \in Closers : CloseCancel(c)
    \/ \E c \in Closers : ShutdownEscalate(c)
    \/ \E c \in Closers : ShutdownCancel(c)
    \/ ListenFetch
    \/ Worker(Loop)

Spec == Init /\ [][Next]_vars

(***************************************************************************)
(* The life of a session: commands are registered, valid or not, before,   *)
(* during and after Open, and the accessor is called at any moment.        *)
(***************************************************************************)
\* the commands handed to RegisterCommands: "a", one without a name, "b"
\* without an Exec
RegInputs == {Command(<<97>>, "user"), Command(<<>>, "user"), Command(<<98>>, "none")}

\* the input "a\n", then the source blocks or is at its end
LifeScripts == {TextScript(2, 2, "block", FALSE), TextScript(2, 2, "EOF", FALSE)}

InitLife ==
    /\ InitReader
    /\ lpc = "nostart"
    /\ src \in LifeScripts
    /\ InitSession
    /\ NoDispatch
    /\ commands = NoCommands

\* one goroutine calls Close and Shutdown
NextLife ==
    \/ OpenStart
    \/ OpenFail
    \/ ExitReceive
    \/ ExitDefault
    \/ ExitAck
    \/ ExitClosed
    \/ OpenPrompt
    \/ ScanToken
    \/ ScanStop
    \/ ScanRead
    \/ ScanReadDone
    \/ OpenDispatch
    \/ OpenHandlerReturn
    \/ \E kind \in {"Close", "Shutdown"} : CloseCall("c1", kind)
    \/ CloseCancel("c1")
    \/ ShutdownEscalate("c1")
    \/ ShutdownCancel("c1")
    \/ ListenFetch
    \/ Worker(Loop)
    \/ \E cmd \in RegInputs : RegisterCommands(cmd)
    \/ Accessor

SpecLife == InitLife /\ [][NextLife]_vars

(***************************************************************************)
(* The session with its goroutines scheduled fairly: the goroutine of Open, *)
(* the worker of the reader and the callers of Close and Shutdown go on     *)
(* whenever they can, the source returns from a fetch it has data or an    *)
(* error for, and every handler returns.  Nothing obliges anybody to call   *)
(* Open, Close or Shutdown, nor the deadline of a Shutdown to expire.       *)
(***************************************************************************)
LoopStep ==
    \/ ExitReceive
    \/ ExitDefault
    \/ ExitAck
    \/ ExitClosed
    \/ OpenPrompt
    \/ ScanToken
    \/ ScanStop
    \/ ScanRead
    \/ ScanReadDone
    \/ OpenDispatch
    \/ OpenHandlerReturn

WorkerStep == ListenFetch \/ Worker(Loop)

CloserStep(c) == CloseCancel(c) \/ ShutdownCancel(c)

Fairness ==
    /\ WF_vars(LoopStep)
    /\ WF_vars(WorkerStep)
    /\ \A c \in Closers : WF_vars(CloserStep(c))

InitFair ==
    /\ InitReader
    /\ lpc = "nostart"
    /\ src \in LifeScripts
    /\ InitSession
    /\ NoDispatch
    /\ commands = Registered

SpecFair == InitFair /\ [][Next]_vars /\ Fairness

(***************************************************************************)
(* The session that is told to quit: the input is "q\na\n", typed at once  *)
(* with the source blocking afterwards, or in two pieces and then ended.   *)
(***************************************************************************)
QuitLine == QuitCmd \o <<NL>>
OtherLine == <<97, NL>>

QuitScripts ==
    { <<Chunk(QuitLine \o OtherLine, "nil")>>,
      <<Chunk(QuitLine, "nil"), Chunk(OtherLine, "EOF")>> }

InitQuit ==
    /\ InitReader
    /\ lpc = "nostart"
    /\ src \in QuitScripts
    /\ InitSession
    /\ NoDispatch
    /\ commands = Registered

SpecQuit == InitQuit /\ [][Next]_vars

(***************************************************************************)
(* The reader shared: a goroutine that was handed the reader by the        *)
(* accessor PreamptiveReader() reads from it, while the session is closed  *)
(* and when it is opened again.                                            *)
(***************************************************************************)
\* the goroutine that holds the reader
Holder == "r1"

\* Reads the holder issues.
MaxExtReads == 1

\* pr := d.PreamptiveReader(); pr.Read(make([]byte, 1))
ExtRead ==
    /\ accRes = "pr"
    /\ nreads < MaxExtReads
    /\ PRead(Holder, 1)

\* the input "a\n", then the source blocks
InitShare ==
    /\ InitReader
    /\ lpc = "nostart"
    /\ src = TextScript(2, 2, "block", FALSE)
    /\ InitSession
    /\ NoDispatch
    /\ commands = Registered

NextShare ==
    \/ OpenStart
    \/ ExitReceive
    \/ ExitDefault
    \/ ExitAck
    \/ ExitClosed
    \/ OpenPrompt
    \/ ScanToken
    \/ ScanStop
    \/ ScanRead
    \/ ScanReadDone
    \/ OpenDispatch
    \/ OpenHandlerReturn
    \/ \E kind \in {"Close", "Shutdown"} : CloseCall("c1", kind)
    \/ CloseCancel("c1")
    \/ ShutdownEscalate("c1")
    \/ ShutdownCancel("c1")
    \/ ListenFetch
    \/ Worker(Loop)
    \/ Accessor
    \/ ExtRead
    \/ Worker(Holder)

SpecShare == InitShare /\ [][NextShare]_vars

(***************************************************************************)
(* One line dispatched through a command tree: Command.init on the root,   *)
(* as Open runs it, then Dialogue.dispatchHandler: Command.parse with      *)
(* flag.FlagSet.Parse, and CallChain.AdvanceExec(0, ctx).                  *)
(***************************************************************************)
\* Longest list of tokens after the command name.
MaxArgs == 4

\* the tokens "a", "b" (the names of the sub-commands), "x", "-v" (a boolean
\* flag), "-n" (a flag with a value), "-z" (a flag no FlagSet defines)
PTokens == {<<97>>, <<98>>, <<120>>, <<45, 118>>, <<45, 110>>, <<45, 122>>}

ArgLists == UNION {[1..n -> PTokens] : n \in 0..MaxArgs}

\* flag.FlagSet.parseOne: len(s) < 2 || s[0] != '-' ends the flags
IsFlagToken(t) == Len(t) >= 2 /\ t[1] = 45

\* The FlagSet of a command: "nil", "own" (made by the user with
\* flag.ContinueOnError, defining -v and -n), "init" (made by Command.init with
\* flag.ExitOnError, defining nothing).
FlagKind(fs, t) ==
    IF fs = "own" /\ t = <<45, 118>> THEN "bool"
    ELSE IF fs = "own" /\ t = <<45, 110>> THEN "value"
    ELSE "undefined"

\* flag.FlagSet.Parse: k tokens are consumed when it stops; set are the flags
\* it has set
RECURSIVE FlagParse(_, _, _, _)
FlagParse(fs, args, k, set) ==
    IF k >= Len(args) \/ ~IsFlagToken(args[k + 1])
    THEN [err |-> "nil", k |-> k, set |-> set]
    ELSE IF FlagKind(fs, args[k + 1]) = "undefined"
    THEN [err |-> "ErrNotDefined", k |-> k + 1, set |-> set]
    ELSE IF FlagKind(fs, args[k + 1]) = "bool"
    THEN FlagParse(fs, args, k + 1, set \cup {args[k + 1]})
    ELSE IF k + 1 >= Len(args)
    THEN [err |-> "ErrNeedsArgument", k |-> k + 1, set |-> set]
    ELSE FlagParse(fs, args, k + 2, set \cup {args[k + 1]})

\* what a failed FlagSet.Parse does: ContinueOnError returns the error,
\* ExitOnError ends the process with os.Exit(2)
ErrorHandling(fs) == IF fs = "own" THEN "err" ELSE "exit"

\* the two loops of Command.parse: the sub-commands in their declared order,
\* and for each of them the tokens of args; i is the index of for i, arg := range args
MatchOf(tree, c, args) ==
    LET subs == tree[c].SubCommands
        hit(j) == \E i \in 1..Len(args) : args[i] = tree[subs[j]].Name
    IN  IF \E j \in 1..Len(subs) : hit(j)
        THEN LET j == CHOOSE j \in 1..Len(subs) : hit(j) /\ \A h \in 1..(j - 1) : ~hit(h)
                 n == tree[subs[j]].Name
                 p == CHOOSE i \in 1..Len(args) :
                         args[i] = n /\ \A h \in 1..(i - 1) : args[h] # n
             IN  [found |-> TRUE, sub |-> subs[j], i |-> p - 1]
        ELSE [found |-> FALSE, sub |-> 0, i |-> 0]

ParseFail(status, why) ==
    [status |-> status, why |-> why, chain |-> <<>>, steps |-> <<>>]

\* Command.parse.  chain is the CallChain; steps records, root first, for every
\* command parse was called on: the args it was given, the tokens its flags
\* took, the index of the match in args (-1: none) and the c.args it was left with.
\* A nil FlagSet, and a slice bound out of range, panic.
RECURSIVE parse(_, _, _)
parse(tree, c, args) ==
    IF tree[c].FlagSet = "nil" THEN ParseFail("panic", "nilFlagSet")
    ELSE LET f == FlagParse(tree[c].FlagSet, args, 0, {})
             cmdArgs == SubSeq(args, f.k + 1, Len(args))
             m == MatchOf(tree, c, args)
         IN  IF f.err # "nil"
             THEN ParseFail(ErrorHandling(tree[c].FlagSet), f.err)
             ELSE IF Len(cmdArgs) > 0 /\ m.found
             THEN IF m.i + 1 > Len(cmdArgs)
                  THEN ParseFail("panic", "sliceBounds")
                  ELSE LET cc == parse(tree, m.sub, SubSeq(cmdArgs, m.i + 2, Len(cmdArgs)))
                           step == [cmd |-> c, given |-> args, flags |-> f.k, match |-> m.i,
                                    args |-> SubSeq(cmdArgs, 1, m.i)]
                       IN  IF cc.status # "ok" THEN cc
                           ELSE [status |-> "ok", why |-> "nil",
                                 chain |-> Append(cc.chain, c),
                                 steps |-> <<step>> \o cc.steps]
             ELSE [status |-> "ok", why |-> "nil", chain |-> <<c>>,
                   steps |-> <<[cmd |-> c, given |-> args, flags |-> f.k, match |-> -1,
                                args |-> cmdArgs]>>]

\* the trees: the root "r" (node 1) with sub-commands among "a" (node 2) and
\* "b" (node 3), "a" with or without the sub-command "b"
PRoot == 1

PTree(rootSubs, aSubs, rootFs, subFs, subExec) ==
    <<[Name |-> <<114>>, Exec |-> "user", FlagSet |-> rootFs, SubCommands |-> rootSubs],
      [Name |-> <<97>>, Exec |-> subExec, FlagSet |-> subFs, SubCommands |-> aSubs],
      [Name |-> <<98>>, Exec |-> "user", FlagSet |-> subFs, SubCommands |-> <<>>]>>

PTrees ==
    {PTree(rs, as, rf, sf, se) :
        rs \in {<<>>, <<2>>, <<2, 3>>, <<3, 2>>}, as \in {<<>>, <<3>>},
        rf \in {"own", "nil"}, sf \in {"own", "nil"}, se \in {"user", "none"}}

\* the commands a dispatch on the root can reach
Reachable(tree) ==
    {PRoot} \cup {tree[PRoot].SubCommands[i] : i \in 1..Len(tree[PRoot].SubCommands)}
            \cup {tree[2].SubCommands[i] :
                    i \in {j \in 1..Len(tree[2].SubCommands) :
                             \E h \in 1..Len(tree[PRoot].SubCommands) :
                                tree[PRoot].SubCommands[h] = 2}}

\* Command.init, on the commands of d.commands only: the FlagSet it provides
InitFlagSet(cmd) == IF cmd.FlagSet = "nil" THEN "init" ELSE cmd.FlagSet

\* Open succeeds: initCommandsLocked validates the root and gives it a FlagSet
PValidate ==
    /\ ppc = "new"
    /\ CommandInit(ptree[PRoot]) = "nil"
    /\ ppc' = "ready"
    /\ ptree' = [ptree EXCEPT ![PRoot].FlagSet = InitFlagSet(ptree[PRoot])]
    /\ UNCHANGED <<prVars, prHist, dlgVars, ncalls, cAt, acked, cFetching, lineSeq,
                   dispatched, lifeHist, pargs, pres, pflags, padv, pcarry, nfargs>>

\* cmd.Exec(c, cmd.args) of the first command of the chain; a nil Exec panics
ExecOf(tree, r) ==
    IF r.status # "ok" THEN [r EXCEPT !.chain = <<>>]
    ELSE IF tree[r.chain[1]].Exec = "none"
    THEN [r EXCEPT !.status = "panic", !.why = "nilExec"]
    ELSE r

\* CallChain.Advance: if n >= len(*c) || n < 0 { panic("cannot advance") }
AdvanceNeverPanics(c, n) == FALSE

AdvancePanics(c, n) == n >= Len(c) \/ n < 0

\* CallChain.Advance(n): *c = (*c)[n:], a slice expression that itself panics
\* when n is outside 0..len(*c).  A panic leaves the chain as it was.
Advance(c, n) ==
    IF AdvancePanics(c, n)
    THEN [status |-> "panic", why |-> "cannotAdvance", chain |-> c]
    ELSE IF n < 0 \/ n > Len(c)
    THEN [status |-> "panic", why |-> "sliceBounds", chain |-> c]
    ELSE [status |-> "ok", why |-> "nil", chain |-> SubSeq(c, n + 1, Len(c))]

\* CallChain.AdvanceExec(n, ctx): Advance(n), then (*c)[0].Exec
AdvanceExec(tree, c, n) ==
    LET a == Advance(c, n)
    IN  IF a.status # "ok" THEN a
        ELSE IF a.chain = <<>> THEN [a EXCEPT !.status = "panic", !.why = "indexRange"]
        ELSE IF tree[a.chain[1]].Exec = "none"
        THEN [a EXCEPT !.status = "panic", !.why = "nilExec"]
        ELSE a

\* what an Exec handler does with the *CallChain it is given
NoAdvance == [op |-> "none", n |-> 0]

\* Largest n a handler passes to Advance and AdvanceExec.
MaxAdvance == 3

HandlerMoves ==
    {NoAdvance} \cup [op : {"Advance", "AdvanceExec"}, n : -1..MaxAdvance]

HandlerMove(tree, c, h) ==
    IF h.op = "Advance" THEN Advance(c, h.n)
    ELSE IF h.op = "AdvanceExec" THEN AdvanceExec(tree, c, h.n)
    ELSE [status |-> "ok", why |-> "nil", chain |-> c]

NoMove == [op |-> "none", n |-> 0, status |-> "none", why |-> "nil", chain |-> <<>>]

\* the flags the FlagSet.Parse calls of Command.parse set, on every path of
\* parse, the failing ones too: Parse sets a flag as soon as it has read it
RECURSIVE parseSets(_, _, _)
parseSets(tree, c, args) ==
    IF tree[c].FlagSet = "nil" THEN {}
    ELSE LET f == FlagParse(tree[c].FlagSet, args, 0, {})
             cmdArgs == SubSeq(args, f.k + 1, Len(args))
             m == MatchOf(tree, c, args)
             own == {<<c, t>> : t \in f.set}
         IN  IF f.err = "nil" /\ Len(cmdArgs) > 0 /\ m.found /\ m.i + 1 <= Len(cmdArgs)
             THEN own \cup parseSets(tree, m.sub, SubSeq(cmdArgs, m.i + 2, Len(cmdArgs)))
             ELSE own

\* CallChain.clean: f.Value.Set(f.DefValue) for the flags of the commands that
\* are in the chain when it runs
clean(flags, chain) == {f \in flags : \A i \in 1..Len(chain) : chain[i] # f[1]}

\* the process has not panicked and has not called os.Exit
Alive == pres.status \in {"ok", "err"} /\ padv.status # "panic"

\* Dialogue.dispatchHandler for a line "r args...": an error of parse is
\* dropped, no handler runs and nothing is cleaned; else
\* defer callChain.clean() and callChain.AdvanceExec(0, cmdCtx), the handler
\* doing h with the chain
PDispatch(h) ==
    /\ ppc = "ready"
    /\ ppc' = "done"
    /\ LET r == ExecOf(ptree, parse(ptree, PRoot, pargs))
           set == pflags \cup parseSets(ptree, PRoot, pargs)
           mv == HandlerMove(ptree, r.chain, h)
       IN  /\ pres' = r
           /\ IF r.status = "ok"
              THEN /\ padv' = [op |-> h.op, n |-> h.n, status |-> mv.status,
                               why |-> mv.why, chain |-> mv.chain]
                   /\ pflags' = clean(set, mv.chain)
              ELSE /\ h = NoAdvance
                   /\ padv' = NoMove
                   /\ pflags' = set
    /\ UNCHANGED <<prVars, prHist, dlgVars, ncalls, cAt, acked, cFetching, lineSeq,
                   dispatched, lifeHist, ptree, pargs, pcarry, nfargs>>

NoCarry == [after |-> "none", flags |-> {}]

\* a name no command is registered under: "z"
UnknownCmd == <<122>>

\* tmp := make([]string, 1, len(args)+1): the length of tmp
MakeLen == 1

\* tmp[0] = cmd; copy(tmp[1:], args): copy writes min(len(tmp[1:]), len(args))
\* elements, and tmp[1:] ends at len(tmp)
NotFoundArgs(cmd, args) ==
    LET tmp == [[i \in 1..MakeLen |-> <<>>] EXCEPT ![1] = cmd]
        n == Min(Len(tmp) - 1, Len(args))
    IN  [i \in 1..Len(tmp) |-> IF i >= 2 /\ i - 1 <= n THEN args[i - 1] ELSE tmp[i]]

NotCalled == [ctx |-> "none", args |-> <<>>]

\* Dialogue.dispatchHandler for a line "z args...": d.CommandNotFound(d.ctx, tmp)
PNotFound ==
    /\ ppc = "ready"
    /\ ppc' = "done"
    /\ pres' = ParseFail("notfound", "nil")
    /\ nfargs' = [ctx |-> "d.ctx", args |-> NotFoundArgs(UnknownCmd, pargs)]
    /\ UNCHANGED <<prVars, prHist, dlgVars, ncalls, cAt, acked, cFetching, lineSeq,
                   dispatched, lifeHist, ptree, pargs, pflags, padv, pcarry>>

InitParse ==
    /\ InitReader
    /\ lpc = "nostart"
    /\ src = <<>>
    /\ InitSession
    /\ commands = NoCommands
    /\ ptree \in PTrees
    /\ pargs \in ArgLists
    /\ ppc = "new"
    /\ pres = ParseFail("none", "nil")
    /\ pflags = {}
    /\ padv = NoMove
    /\ pcarry = NoCarry
    /\ nfargs = NotCalled

NextParse ==
    \/ PValidate
    \/ PDispatch(NoAdvance)
    \/ PNotFound

SpecParse == InitParse /\ [][NextParse]_vars

(***************************************************************************)
(* Lines dispatched one after the other through a well-formed command tree, *)
(* the handlers advancing the chain they are given.                        *)
(***************************************************************************)
\* every command has Name, Exec and its own FlagSet
CleanTrees ==
    {PTree(rs, as, "own", "own", "user") : rs \in {<<>>, <<2>>, <<2, 3>>}, as \in {<<>>, <<3>>}}

\* the lines that follow the first one
NextLines == UNION {[1..n -> PTokens] : n \in 0..1}

\* the loop goes on to the next line: prompt, scanner.Scan, strings.Fields
PNextLine ==
    /\ ppc = "done"
    /\ Alive
    /\ ppc' = "ready"
    /\ pargs' \in NextLines
    /\ pcarry' = [after |-> pres.status, flags |-> pflags]
    /\ pres' = ParseFail("none", "nil")
    /\ padv' = NoMove
    /\ UNCHANGED <<prVars, prHist, dlgVars, ncalls, cAt, acked, cFetching, lineSeq,
                   dispatched, lifeHist, ptree, pflags, nfargs>>

InitClean ==
    /\ InitReader
    /\ lpc = "nostart"
    /\ src = <<>>
    /\ InitSession
    /\ commands = NoCommands
    /\ ptree \in CleanTrees
    /\ pargs \in ArgLists
    /\ ppc = "new"
    /\ pres = ParseFail("none", "nil")
    /\ pflags = {}
    /\ padv = NoMove
    /\ pcarry = NoCarry
    /\ nfargs = NotCalled

NextClean ==
    \/ PValidate
    \/ \E h \in HandlerMoves : PDispatch(h)
    \/ PNextLine

SpecClean == InitClean /\ [][NextClean]_vars

(***************************************************************************)
(* The session's contract (Spec).                                          *)
(***************************************************************************)
\* C1: every call to Open returns a non-nil error, whatever ended the loop.
C1_OpenReturnsError ==
    (opens > 0 /\ pc = "idle") => openRes # "nil"

\* C2: a Close called while the loop's read is blocked in a source fetch returns
\* nil, and only after the loop acknowledged it; by then the base context is
\* cancelled, so the read does not wait for the source; and Open returns
\* ErrDialogueClosed.
C2_CloseAbandonsRead ==
    \A c \in Closers :
        (ckind[c] = "Close" /\ cAt[c] = "blockedRead" /\ cpc[c] = "idle" /\ opens = 1) =>
            /\ cres[c] = "nil"
            /\ acked[c]
            /\ ctxDone
            /\ pc = "idle" => openRes = "ErrDialogueClosed"

\* C3: no caller of Close or Shutdown on a session whose loop is running returns
\* before the loop has acknowledged that caller's request.
C3_CallersWaitForAck ==
    \A c \in Closers :
        (cAt[c] \notin {"none", "idle"} /\ cpc[c] = "idle") => acked[c]

\* C4: a Shutdown called while a line is being read, whose deadline does not
\* expire, returns nil and only once the loop has acknowledged it, which the loop
\* does at its checkpoint, after the read and the dispatch of its line; the loop
\* is never found inside that transaction when the call has returned.
C4_ShutdownWaitsForTransaction ==
    \A c \in Closers :
        (/\ ckind[c] = "Shutdown"
         /\ cAt[c] \in {"blockedRead", "reading"}
         /\ cpc[c] = "idle"
         /\ ~cdead[c]
         /\ opens = 1) =>
            /\ cres[c] = "nil"
            /\ acked[c]
            /\ pc \in {"waitCtx", "idle"}

\* C5: a Shutdown whose deadline expires while the fetch of the loop's read has
\* not returned cancels the base context, returns the deadline's error only
\* after the loop's acknowledgement, no handler runs for the line whose read was
\* abandoned, and Open returns ErrDialogueClosed.
C5_ShutdownDeadline ==
    \A c \in Closers :
        (ckind[c] = "Shutdown" /\ cAt[c] = "blockedRead" /\ cdead[c] /\ opens = 1) =>
            /\ cpc[c] = "sdWait" => ctxDone
            /\ cpc[c] = "idle" => (cres[c] = "DeadlineExceeded" /\ acked[c])
            /\ (cpc[c] = "sdWait" /\ cFetching[c] /\ serr = "Canceled") => pc # "handler"
            /\ (cpc[c] = "idle" /\ pc = "idle") => openRes = "ErrDialogueClosed"

\* C25: when a handler has returned the error EHandler, the next thing the loop
\* does is to end, Open returning EHandler, whatever the callers of Close and
\* Shutdown do meanwhile.
C25_HandlerErrorReturned ==
    [][(pc = "exit" /\ exitErr = "EHandler") =>
          (pc' = "exit" \/ (pc' = "idle" /\ openRes' = "EHandler"))]_vars

\* C26: the lines are dispatched in the order in which they were read, a
\* handler starts only when no other is running, and the prompt is written
\* only when the dispatch of the line before, its handler and the deferred
\* cleanup, has returned.
C26_OneDispatchAtATime ==
    /\ [](LET due == SelectSeq([i \in 1..Len(lineSeq) |-> Fields(lineSeq[i])],
                               LAMBDA f : Len(f) > 0)
          IN  IsPrefix(dispatched, due) /\ Len(due) - Len(dispatched) <= 1)
    /\ [][/\ (hkind' # hkind /\ hkind' # "none") => hkind = "none"
          /\ (pc = "prompt" /\ pc' # "prompt") => hkind = "none"]_vars

\* C26: a second line is dispatched after the handler of the first has returned
C26_SecondHandler ==
    /\ Len(dispatched) = 2
    /\ Len(lineSeq) = 2
    /\ pc = "handler"
    /\ hkind = "quit"

\* C27: when a second Open starts its first read while the worker holds the
\* bytes of the fetch that the Close of the first session abandoned, that read
\* returns in the end and returns those bytes.
C27_ReopenProgress ==
    (opens = 2 /\ rpc[Loop] = "sendRead" /\ lpc = "select2" /\ abState = "set")
        ~> (~InRead(Loop) /\ rres[Loop].err = "nil" /\ rres[Loop].data = lastFetch)

\* C30: every call of Close that does not return at once returns nil in the end.
C30_CloseReturns ==
    \A c \in Closers :
        (cpc[c] # "idle" /\ ckind[c] = "Close") ~> (cpc[c] = "idle" /\ cres[c] = "nil")

\* C28: a Read that loses the claim, the loop's included, does not end the
\* session: the loop never leaves with the claim error and Open never returns it.
C28_ClaimNotFatal ==
    exitErr # "ErrClaim" /\ openRes # "ErrClaim"

(***************************************************************************)
(* The reader's contract (SpecPR).                                         *)
(***************************************************************************)
\* C6: after a read was abandoned by cancellation, the reads that follow deliver
\* exactly the bytes the abandoned fetch returned, in order, and the read after
\* the last of them returns end-of-input.
C6_AbandonedBytesExact ==
    abState = "set" =>
        /\ IsPrefix(afterCancel, lastFetch)
        /\ eofAfter => afterCancel = lastFetch
        /\ \A c \in ExtCallers :
              (rres[c].path = "mem" /\ rres[c].err # "nil") => rres[c].err = "EOF"

\* C7: a Read that finds the context cancelled, when no fetch was abandoned,
\* returns zero bytes and end-of-input.
C7_NoRedelivery ==
    \A c \in ExtCallers :
        (rres[c].path = "mem" /\ abState = "none") =>
            (rres[c].n = 0 /\ rres[c].err = "EOF")

\* C8: once the worker has stored the terminal condition every later Read
\* returns it: no Read is left offering its buffer to the terminated worker, a
\* state no step leads out of.
C8_StickyError ==
    \A c \in ExtCallers :
        /\ ~(lpc = "done" /\ rpc[c] \in {"sendMem", "sendRead"})
        /\ (rres[c].path \in {"mem", "read"} /\ rres[c].err \notin {"nil", "Canceled"}) =>
              rres[c].err = rerr

\* C9: of two Read calls that overlap in time one proceeds and the other returns
\* at once with zero bytes and the claim error; a Read that overlaps no other is
\* never refused, and at most one Read is inside the reader.
C9_OneReadAtATime ==
    /\ \A c \in ExtCallers :
          overlap[c] => (rpc[c] = "idle" /\ rres[c].n = 0 /\ rres[c].err = "ErrClaim")
    /\ \A c \in ExtCallers : ~overlap[c] => rres[c].err # "ErrClaim"
    /\ Cardinality({c \in ExtCallers : InRead(c)}) <= 1
    /\ claimRead = (\E c \in ExtCallers : InRead(c))

\* a Read was refused while the other caller's Read is still in progress
C9_Refused ==
    \E c \in ExtCallers, d \in ExtCallers :
        /\ c # d
        /\ overlap[c]
        /\ rres[c].err = "ErrClaim"
        /\ InRead(d)

\* C10: a Read cancelled while it waits for the worker's fetch returns zero bytes
\* and the cancellation error, and the bytes that fetch obtains are handed to the
\* Reads that follow: once the worker has terminated, nothing is left to hand
\* over.
C10_AbandonedBytesKept ==
    /\ \A c \in ExtCallers : rres[c].err = "Canceled" => rres[c].n = 0
    /\ (abState = "set" /\ lpc = "done") => IsPrefix(lastFetch, afterCancel)

\* C11: while the context is not cancelled the reader is transparent: once
\* every Read has returned, the bytes the Reads returned are the bytes the
\* source returned, in order, and a Read that reports an error reports it
\* after all of them.
C11_SameAsSource ==
    (~ctxDone /\ \A c \in ExtCallers : ~InRead(c)) => delivered = fetched

\* C29: when a Read returns the sticky error of the source, every byte the
\* source had returned, with that error or to an abandoned fetch before it,
\* has been delivered by the Reads before.
C29_BytesBeforeStickyError ==
    \A c \in ExtCallers :
        rres[c].err \notin {"nil", "Canceled", "ErrClaim"} => IsPrefix(fetched, delivered)

(***************************************************************************)
(* The registry and the accessor (SpecLife).                               *)
(***************************************************************************)
\* C12: a RegisterCommands call made while d.running is set leaves the registry
\* as it was (the call returns nothing, so it raises no error).
C12_RegisterWhileRunning ==
    [][(nregs' # nregs /\ running) => commands' = commands]_vars

\* a RegisterCommands call found the session running
C12_CalledWhileRunning ==
    nregs > 0 /\ regRunning /\ pc # "idle"

\* C13: from the moment Open has entered its loop until Open returns, no step
\* changes the registry.
C13_RegistryFrozenInLoop ==
    [][pc # "idle" => commands' = commands]_vars

\* C14: the accessor never hands out the reader while the loop is inside
\* scanner.Scan, issuing or waiting on a read.
C14_AccessorOnlyWhenUnused ==
    accRes = "pr" => accAt \notin {"reading", "blockedRead"}

\* C16: Open called with an empty registry returns an error, does not enter the
\* loop, touches neither the reader nor the source, and leaves the session not
\* running.
C16_OpenEmptyRegistry ==
    [][(opens' # opens /\ DOMAIN commands = {}) =>
          /\ openRes' = "ErrNoCommands"
          /\ pc' = "idle"
          /\ ~running'
          /\ UNCHANGED <<prVars, commands, lineSeq, dispatched>>]_vars

\* Open has failed on an empty registry
C16_FailedOnEmpty ==
    opens > 0 /\ openRes = "ErrNoCommands" /\ DOMAIN commands = {} /\ pc = "idle"

(***************************************************************************)
(* Validation, parsing and dispatch of a command tree (SpecParse).         *)
(***************************************************************************)
\* C15: once Open has validated the registry, every command reachable in the
\* tree has a name and an exec handler, and no dispatch reaches a command
\* without an exec handler or a FlagSet.
C15_TreeValidated ==
    /\ ppc \in {"ready", "done"} =>
          \A c \in Reachable(ptree) : ptree[c].Name # <<>> /\ ptree[c].Exec # "none"
    /\ ppc = "done" => pres.why \notin {"nilFlagSet", "nilExec"}

\* C17: the chain parse returns ends with the root, every command of it is a
\* sub-command of the one after it, and it holds only the root when no
\* positional token of the line is the name of a child of the root.
C17_ChainLeafFirst ==
    (ppc = "done" /\ pres.status = "ok") =>
        LET ch == pres.chain
            subs == ptree[PRoot].SubCommands
            pos == SubSeq(pargs, pres.steps[1].flags + 1, Len(pargs))
        IN  /\ ch[Len(ch)] = PRoot
            /\ \A i \in 1..(Len(ch) - 1) :
                  \E h \in 1..Len(ptree[ch[i + 1]].SubCommands) :
                     ptree[ch[i + 1]].SubCommands[h] = ch[i]
            /\ (\A i \in 1..Len(pos), h \in 1..Len(subs) : pos[i] # ptree[subs[h]].Name)
                  => ch = <<PRoot>>

\* C18: when positional tokens are names of children of the root, parse descends
\* into the child named by the leftmost of them, whatever the order of the
\* children.
C18_LeftmostToken ==
    (ppc = "done" /\ pres.status = "ok" /\ Len(pres.chain) >= 2) =>
        LET subs == ptree[PRoot].SubCommands
            pos == SubSeq(pargs, pres.steps[1].flags + 1, Len(pargs))
            isName(i) == \E h \in 1..Len(subs) : pos[i] = ptree[subs[h]].Name
        IN  \A i \in 1..Len(pos) :
               (isName(i) /\ \A j \in 1..(i - 1) : ~isName(j)) =>
                   ptree[pres.chain[Len(pres.chain) - 1]].Name = pos[i]

\* C19: when a child matches, the node keeps exactly the positional tokens
\* that precede the matched token and the child is parsed with exactly the
\* tokens that follow it, also when the node's flags are on the line.
C19_ResidualArgs ==
    ppc = "done" =>
        /\ pres.why # "sliceBounds"
        /\ pres.status = "ok" =>
              \A i \in 1..(Len(pres.steps) - 1) :
                 LET st == pres.steps[i]
                 IN  /\ st.args = SubSeq(st.given, st.flags + 1, st.match)
                     /\ pres.steps[i + 1].given =
                           SubSeq(st.given, st.match + 2, Len(st.given))

\* C20: a line with a malformed flag runs no exec handler and the dispatch
\* returns without an error, so that the loop goes on to the next prompt.
C20_MalformedFlag ==
    (ppc = "done" /\ pres.why \in {"ErrNotDefined", "ErrNeedsArgument"}) =>
        (pres.status = "err" /\ pres.chain = <<>>)

\* C23: the not-found handler is called with the session's context and with
\* the unmatched command name followed by every other token of the line, in order.
C23_NotFoundArgs ==
    nfargs.ctx # "none" =>
        (nfargs.ctx = "d.ctx" /\ nfargs.args = <<UnknownCmd>> \o pargs)

(***************************************************************************)
(* The flags and the CallChain after a dispatch (SpecClean).               *)
(***************************************************************************)
\* C21: after a dispatch whose handler returned, every flag that parsing set
\* on a command of the resolved chain is back at its default, also when the
\* handler advanced the chain.
C21_FlagsReset ==
    (ppc = "done" /\ pres.status = "ok" /\ padv.status = "ok") =>
        parseSets(ptree, PRoot, pargs) \cap pflags = {}

\* C22: a dispatch aborted by a malformed flag leaves the flags set earlier on
\* the line at their defaults, so that the next line starts with no flag
\* carried over from it.
C22_NoFlagCarriedOver ==
    /\ (ppc = "done" /\ pres.status = "err") =>
           parseSets(ptree, PRoot, pargs) \cap pflags = {}
    /\ pcarry.after = "err" => pcarry.flags = {}

\* C24: Advance(n) with 0 <= n < len(chain) drops exactly the first n entries
\* and keeps the rest in order; with any other n it panics and the chain is
\* left as it was.
C24_AdvanceContract ==
    (ppc = "done" /\ padv.op \in {"Advance", "AdvanceExec"}) =>
        LET c == pres.chain
            n == padv.n
        IN  IF 0 <= n /\ n < Len(c)
            THEN /\ padv.status = "ok"
                 /\ Len(padv.chain) = Len(c) - n
                 /\ \A i \in 1..Len(padv.chain) : padv.chain[i] = c[i + n]
            ELSE /\ padv.status = "panic"
                 /\ padv.chain = c

\* C24: a handler at the head of a chain of three has advanced by two
C24_AdvancedByTwo ==
    /\ ppc = "done"
    /\ padv.op = "Advance"
    /\ padv.n = 2
    /\ Len(pres.chain) = 3
    /\ padv.chain = <<PRoot>>

(***************************************************************************)
(* Close, Shutdown and cancellation, seen from their callers (Spec).       *)
(***************************************************************************)
\* C31: a Close called while an earlier Shutdown still waits for the loop's
\* transaction, the loop's read being blocked in a source fetch and the base
\* context not yet cancelled, does not return before it has cancelled the
\* base context.
C31_CloseDuringShutdown ==
    [][\A c \in Closers :
          (/\ cpc[c] = "idle"
           /\ ncalls' = ncalls + 1
           /\ ckind'[c] = "Close"
           /\ LoopAt = "blockedRead"
           /\ ~ctxDone
           /\ \E o \in Closers \ {c} :
                 ckind[o] = "Shutdown" /\ cpc[o] = "sdSelect" /\ ~acked[o])
          => ~(cpc'[c] = "idle" /\ ~ctxDone')]_vars

\* C32: a Read that was pending when the context was cancelled returns in the
\* end, the source doing nothing more, whatever the worker was doing.
C32_CancelUnblocksRead ==
    \A c \in ExtCallers :
        (rpc[c] \in {"sendRead", "recvRead"} /\ ctxDone) ~> ~InRead(c)

(***************************************************************************)
(* The quit command (SpecQuit).                                            *)
(***************************************************************************)
\* the first Open has dispatched a line that names the quit command
QuitDispatched ==
    /\ opens = 1
    /\ \E i \in 1..Len(dispatched) : dispatched[i][1] = QuitCmd

\* C33: once the first Open has dispatched the synthesized quit command, no
\* other line is dispatched, the loop is on its way out as soon as the handler
\* has returned, and when Open has returned it has returned ErrDialogueClosed,
\* the base context is cancelled and the session is not running.
C33_QuitEndsSession ==
    QuitDispatched =>
        /\ dispatched[Len(dispatched)][1] = QuitCmd
        /\ commands[QuitCmd].Exec = "quit"
        /\ pc \in {"handler", "exit", "ackSend", "waitCtx", "idle"}
        /\ pc = "idle" => (openRes = "ErrDialogueClosed" /\ ctxDone /\ ~running)

\* C33: Open has returned after the quit line, the line that follows it in the
\* input having been fetched from the source and left undispatched
C33_QuitBeforeNextLine ==
    /\ QuitDispatched
    /\ pc = "idle"
    /\ openRes = "ErrDialogueClosed"
    /\ dispatched = <<Fields(QuitLine)>>
    /\ IsPrefix(QuitLine \o <<97>>, fetched)

(***************************************************************************)
(* The source (Spec).                                                      *)
(***************************************************************************)
\* C34: at most one call of the source's Read is in progress at any time.
C34_OneSourceCall ==
    srcCalls <= 1

\* C34: the read of a session that was opened again waits while the fetch that
\* the session before abandoned is still in the source
C34_ReopenedDuringFetch ==
    /\ opens = 2
    /\ rpc[Loop] = "sendRead"
    /\ lpc = "fetching"
    /\ srcCalls = 1

(***************************************************************************)
(* The loop's checkpoint (Spec).                                           *)
(***************************************************************************)
\* C35: the loop takes a close request out of d.close only at the top of an
\* iteration or on its way out, never while it is reading; and from the moment
\* it has taken one until Open returns it writes no prompt, starts no read,
\* reads no line and dispatches none.
C35_CheckpointFinal ==
    [][/\ (closeCh # <<>> /\ closeCh' = Tail(closeCh)) =>
             (pc \in {"check", "exit"} /\ rpc[Loop] = "idle")
       /\ (pc \in {"ackSend", "waitCtx"}) =>
             /\ pc' \in {"ackSend", "waitCtx", "idle"}
             /\ rpc'[Loop] = rpc[Loop]
             /\ lineSeq' = lineSeq
             /\ dispatched' = dispatched]_vars

\* C35: a Shutdown called while the loop's read was blocked has been picked up
\* after the line was dispatched, and input is left in the source
C35_PickedUpAfterRead ==
    \E c \in Closers :
        /\ ckind[c] = "Shutdown"
        /\ cAt[c] = "blockedRead"
        /\ ackTok = c
        /\ pc = "waitCtx"
        /\ Len(dispatched) = 1
        /\ src # <<>>

\* C36: when the loop is leaving with an error, or with none, and a close
\* request is in d.close, Open does not return that error: the loop takes the
\* request, acknowledges it to its sender, and returns only once the base
\* context is cancelled, and then ErrDialogueClosed.
C36_PendingRequestWins ==
    [][/\ (pc = "exit" /\ closeCh # <<>>) =>
             (pc' = "exit" \/ (pc' = "ackSend" /\ ackTok' = Head(closeCh)))
       /\ (pc = "ackSend") =>
             (pc' = "ackSend" \/ (pc' = "waitCtx" /\ acked'[ackTok]))
       /\ (pc = "waitCtx") =>
             (pc' = "waitCtx" \/
              (pc' = "idle" /\ ctxDone /\ openRes' = "ErrDialogueClosed"))]_vars

\* C36: the handler returned an error while a request was pending, and Open
\* has returned ErrDialogueClosed after acknowledging the request
C36_HandlerErrorReplaced ==
    /\ opens = 1
    /\ pc = "idle"
    /\ exitErr = "EHandler"
    /\ openRes = "ErrDialogueClosed"
    /\ ackTok \in Closers
    /\ acked[ackTok]
    /\ ctxDone

(***************************************************************************)
(* The claim on the reader (SpecPRFair).                                   *)
(***************************************************************************)
\* C37: a Read call that is in progress once the worker has ended returns in
\* the end, and so gives the claim back.
C37_ReadReturnsClaim ==
    \A c \in ExtCallers :
        (InRead(c) /\ lpc = "done") ~> ~InRead(c)

(***************************************************************************)
(* The calls of the source (SpecPR).                                       *)
(***************************************************************************)
\* C38: a Read that starts when the context is cancelled never asks for a
\* source read; the source is called only for a Read that asked for it; the
\* worker ends in the step in which the source reports an error; and once the
\* worker has ended the source is not called again.
C38_SourceUntouched ==
    [][/\ \A c \in ExtCallers :
             (rpc[c] = "idle" /\ rpc'[c] # "idle" /\ ctxDone) => rpc'[c] = "sendMem"
       /\ (srcCalls' > srcCalls) =>
             \E c \in ExtCallers : rpc[c] = "sendRead" /\ rpc'[c] = "recvRead"
       /\ (srcCalls' < srcCalls /\ SrcFetch(src, SliceLen(lbuf)).err # "nil") =>
             (lpc' = "done" /\ rerr' = SrcFetch(src, SliceLen(lbuf)).err)
       /\ (lpc = "done") => (lpc' = "done" /\ srcCalls' = srcCalls /\ src' = src)]_vars

\* C38: a Read that started after the cancellation was given bytes from the
\* buffer of the abandoned read while the source has more to return
C38_ServedFromMemory ==
    \E c \in ExtCallers :
        /\ ctxDone
        /\ rpc[c] = "idle"
        /\ rres[c].path = "mem"
        /\ rres[c].n > 0
        /\ src # <<>>
        /\ srcCalls = 0

(***************************************************************************)
(* The session after Open (Spec).                                          *)
(***************************************************************************)
\* C39: whenever Open has returned, d.init having succeeded, the session is
\* not running and its base context is cancelled.
C39_ReturnedMeansStopped ==
    (opens > 0 /\ pc = "idle") => (~running /\ ctxDone)

\* C40: d.close never holds more than one request, no caller of Close or
\* Shutdown is blocked in the send on d.close with d.mu held, and no request
\* is left in d.close when Open has returned, where a later Open would find it.
C40_NoStaleToken ==
    /\ Len(closeCh) <= 1
    /\ \A c \in Closers : ~(cpc[c] = "sendBlocked" /\ mu = c)
    /\ (pc = "idle") => closeCh = <<>>

====
